---- MODULE Spec2Model ----
(***************************************************************************)
(* Location resolution engine of the AnayaTaxi booking form:               *)
(*   - the /api/geocode route and its client FreeLocationService           *)
(*     (reverse geocoding with provider fallback),                         *)
(*   - the map-click selection machine of TaxiBookingApp (handleMapClick,  *)
(*     resetLocationSelection) with the click handler FreeMap registers,   *)
(*   - the debounced street autocomplete (handleAddressChange,             *)
(*     searchStreets, selectStreetSuggestion) with the /api/search-streets *)
(*     route and its client MalmoStreetService,                            *)
(*   - the GPS position of the passenger (getCurrentLocation).             *)
(*                                                                         *)
(* Numbers: a coordinate is an integer counting 1e-5 degrees, so 55.6050   *)
(* is 5560500.  Texts are strings; the location glyph U+1F4CD is written   *)
(* "[pin]" because the module is ASCII.                                    *)
(***************************************************************************)
EXTENDS Integers, Sequences, FiniteSets, TLC

(***************************************************************************)
(* Bounds of the model.                                                    *)
(***************************************************************************)
\* map clicks and position requests, together
MaxClicks == 2
MaxResets == 2
\* address changes and focus searches, together
MaxInputs == 2
\* clicks, position requests, resets and address changes of the booking
\* form taken as a whole
MaxEvents == 4

(***************************************************************************)
(* Program constants.                                                      *)
(***************************************************************************)
ProviderTimeout == 8
ClientTimeout == 12
MinQueryLength == 2
FixedDigits == 4

Glyph == "[pin] "
Interim == "[search] Getting address..."

(***************************************************************************)
(* Number formatting and parsing.                                          *)
(***************************************************************************)
RECURSIVE Pow10(_)
Pow10(k) == IF k = 0 THEN 1 ELSE 10 * Pow10(k - 1)

Abs(x) == IF x < 0 THEN -x ELSE x

DigitChar(d) ==
  CASE d = 0 -> "0" [] d = 1 -> "1" [] d = 2 -> "2" [] d = 3 -> "3"
    [] d = 4 -> "4" [] d = 5 -> "5" [] d = 6 -> "6" [] d = 7 -> "7"
    [] d = 8 -> "8" [] d = 9 -> "9"

DigitVal(c) ==
  CASE c = "0" -> 0 [] c = "1" -> 1 [] c = "2" -> 2 [] c = "3" -> 3
    [] c = "4" -> 4 [] c = "5" -> 5 [] c = "6" -> 6 [] c = "7" -> 7
    [] c = "8" -> 8 [] c = "9" -> 9

\* decimal digits of a natural number, most significant first
RECURSIVE Digits(_)
Digits(n) == IF n < 10 THEN <<n>> ELSE Digits(n \div 10) \o <<n % 10>>

\* the w low digits of n, zero padded
PadDigits(n, w) == [i \in 1..w |-> (n \div Pow10(w - i)) % 10]

RECURSIVE StripZeros(_)
StripZeros(s) ==
  IF s = <<>> \/ s[Len(s)] # 0 THEN s
  ELSE StripZeros(SubSeq(s, 1, Len(s) - 1))

RECURSIVE StrOfDigits(_)
StrOfDigits(s) ==
  IF s = <<>> THEN "" ELSE DigitChar(Head(s)) \o StrOfDigits(Tail(s))

\* toFixed cutting the digits off instead of rounding
ToFixed_Truncate(x, d) ==
  LET a == Abs(x)
      n == IF d <= 5 THEN a \div Pow10(5 - d) ELSE a * Pow10(d - 5)
  IN  (IF x < 0 THEN "-" ELSE "")
        \o StrOfDigits(Digits(n \div Pow10(d)))
        \o (IF d = 0 THEN "" ELSE "." \o StrOfDigits(PadDigits(n % Pow10(d), d)))

\* Number.prototype.toFixed(d): sign taken first, then the magnitude is
\* rounded to d decimals, a tie going to the larger magnitude.
ToFixed(x, d) ==
  LET a == Abs(x)
      n == IF d <= 5 THEN (a + (Pow10(5 - d) \div 2)) \div Pow10(5 - d)
           ELSE a * Pow10(d - 5)
  IN  (IF x < 0 THEN "-" ELSE "")
        \o StrOfDigits(Digits(n \div Pow10(d)))
        \o (IF d = 0 THEN "" ELSE "." \o StrOfDigits(PadDigits(n % Pow10(d), d)))

\* `${lat}` in the request URL: the shortest decimal of the number, as a
\* sequence of characters.
NumberToString(x) ==
  LET a == Abs(x)
      frac == StripZeros(PadDigits(a % 100000, 5))
  IN  (IF x < 0 THEN <<"-">> ELSE <<>>)
        \o [i \in 1..Len(Digits(a \div 100000)) |-> DigitChar(Digits(a \div 100000)[i])]
        \o (IF frac = <<>> THEN <<>>
            ELSE <<".">> \o [i \in 1..Len(frac) |-> DigitChar(frac[i])])

RECURSIVE DigitsValue(_)
DigitsValue(s) ==
  IF s = <<>> THEN 0
  ELSE 10 * DigitsValue(SubSeq(s, 1, Len(s) - 1)) + DigitVal(s[Len(s)])

\* parseFloat of a decimal parameter, back to 1e-5 degrees
ParseFloat(s) ==
  LET neg == s # <<>> /\ s[1] = "-"
      body == IF neg THEN Tail(s) ELSE s
      dots == {i \in 1..Len(body) : body[i] = "."}
      dot == IF dots = {} THEN Len(body) + 1 ELSE CHOOSE i \in dots : TRUE
      int == DigitsValue(SubSeq(body, 1, dot - 1))
      fr == SubSeq(body, dot + 1, Len(body))
      v == int * 100000 + DigitsValue(fr) * Pow10(5 - Len(fr))
  IN  IF neg THEN -v ELSE v

\* the degraded address: glyph, then both coordinates to 4 decimals
CoordinateFallback(lat, lng) ==
  Glyph \o ToFixed(lat, FixedDigits) \o ", " \o ToFixed(lng, FixedDigits)

(***************************************************************************)
(* Provider outcomes.  kind is what the fetch of the provider ended with:  *)
(* "ok" (2xx, JSON parsed), "non2xx", "badjson" (json() throws),           *)
(* "unreachable" (fetch rejects) or "timeout" (aborted by its signal).     *)
(* dur is the seconds the call took.                                       *)
(***************************************************************************)
PrimaryOutcomes ==
  { [kind |-> "ok", display_name |-> "Stortorget 1, Malmo", dur |-> 1],
    [kind |-> "ok", display_name |-> "Malmo, Sweden", dur |-> 1],
    [kind |-> "ok", display_name |-> "", dur |-> 1],
    [kind |-> "non2xx", display_name |-> "", dur |-> 1],
    [kind |-> "badjson", display_name |-> "", dur |-> 1],
    [kind |-> "unreachable", display_name |-> "", dur |-> 1],
    [kind |-> "timeout", display_name |-> "", dur |-> ProviderTimeout] }

BackupPayload(c, l, s, n, d) ==
  [kind |-> "ok", city |-> c, locality |-> l, principalSubdivision |-> s,
   countryName |-> n, dur |-> d]

BackupFailure(k, d) ==
  [kind |-> k, city |-> "", locality |-> "", principalSubdivision |-> "",
   countryName |-> "", dur |-> d]

BackupOutcomes ==
  { BackupPayload("Malmo", "Limhamn", "Skane", "Sweden", 1),
    BackupPayload("Malmo", "", "", "Sweden", 5),
    BackupPayload("", "Limhamn", "Skane", "Sweden", 1),
    BackupPayload("Malmo", "", "Skane", "", 1),
    BackupFailure("non2xx", 1),
    BackupFailure("badjson", 1),
    BackupFailure("unreachable", 1),
    BackupFailure("timeout", ProviderTimeout) }

\* what the browser's fetch of /api/geocode meets on the way, apart from
\* its own timeout
NetOutcomes == {"ok", "unreachable", "non2xx", "badjson"}

(***************************************************************************)
(* GET /api/geocode.  lat and lng are the query parameters as character    *)
(* sequences, <<>> when absent.  calls lists the provider fetches in the   *)
(* order they were made.                                                   *)
(***************************************************************************)
PrimaryAddress(p) ==
  IF p.kind = "ok" /\ p.display_name # "" THEN p.display_name ELSE ""

\* `${locality || city}, ${principalSubdivision || ''}, ${countryName}`
\* with the first ", ," replaced by ","
BackupAddress(b) ==
  IF b.kind = "ok" /\ b.city # "" /\ b.countryName # ""
  THEN LET first == IF b.locality # "" THEN b.locality ELSE b.city
       IN  IF b.principalSubdivision = ""
           THEN first \o ", " \o b.countryName
           ELSE first \o ", " \o b.principalSubdivision \o ", " \o b.countryName
  ELSE ""

\* the route calling the backup provider whatever the primary gave
GeocodeRoute_AlwaysBackup(lat, lng, p, b) ==
  IF lat = <<>> \/ lng = <<>>
  THEN [status |-> 400, success |-> FALSE, address |-> "", calls |-> <<>>,
        dur |-> 0]
  ELSE
    LET a1 == PrimaryAddress(p)
        a2 == IF a1 = "" THEN BackupAddress(b) ELSE a1
        a3 == IF a2 = ""
              THEN CoordinateFallback(ParseFloat(lat), ParseFloat(lng))
              ELSE a2
    IN  [status |-> 200, success |-> TRUE, address |-> a3,
         calls |-> <<"primary", "backup">>, dur |-> p.dur + b.dur]

\* the route calling the primary provider a second time when the first
\* call gave no address
GeocodeRoute_RetryPrimary(lat, lng, p, b) ==
  IF lat = <<>> \/ lng = <<>>
  THEN [status |-> 400, success |-> FALSE, address |-> "", calls |-> <<>>,
        dur |-> 0]
  ELSE
    LET a1 == PrimaryAddress(p)
        callBackup == a1 = ""
        a2 == IF callBackup THEN BackupAddress(b) ELSE a1
        a3 == IF a2 = ""
              THEN CoordinateFallback(ParseFloat(lat), ParseFloat(lng))
              ELSE a2
    IN  [status |-> 200, success |-> TRUE, address |-> a3,
         calls |-> IF callBackup THEN <<"primary", "primary", "backup">>
                   ELSE <<"primary">>,
         dur |-> IF callBackup THEN p.dur + p.dur + b.dur ELSE p.dur]

GeocodeRoute(lat, lng, p, b) ==
  IF lat = <<>> \/ lng = <<>>
  THEN [status |-> 400, success |-> FALSE, address |-> "", calls |-> <<>>,
        dur |-> 0]
  ELSE
    LET a1 == PrimaryAddress(p)
        callBackup == a1 = ""
        a2 == IF callBackup THEN BackupAddress(b) ELSE a1
        a3 == IF a2 = ""
              THEN CoordinateFallback(ParseFloat(lat), ParseFloat(lng))
              ELSE a2
    IN  [status |-> 200, success |-> TRUE, address |-> a3,
         calls |-> IF callBackup THEN <<"primary", "backup">> ELSE <<"primary">>,
         dur |-> IF callBackup THEN p.dur + b.dur ELSE p.dur]

(***************************************************************************)
(* FreeLocationService.getAddressFromCoords.                               *)
(***************************************************************************)
\* the try block: what it returns, or that it threw
GetAddressTry(lat, lng, p, b, net) ==
  LET resp == GeocodeRoute(NumberToString(lat), NumberToString(lng), p, b)
      reached == net # "unreachable"
      calls == IF reached THEN resp.calls ELSE <<>>
  IN  IF ~reached \/ resp.dur > ClientTimeout
        THEN [threw |-> TRUE, text |-> "", calls |-> calls, route |-> resp]
      ELSE IF net = "non2xx" \/ resp.status # 200
        THEN [threw |-> TRUE, text |-> "", calls |-> calls, route |-> resp]
      ELSE IF net = "badjson"
        THEN [threw |-> TRUE, text |-> "", calls |-> calls, route |-> resp]
      ELSE IF resp.success /\ resp.address # ""
        THEN [threw |-> FALSE, text |-> resp.address, calls |-> calls,
              route |-> resp]
      ELSE [threw |-> FALSE, text |-> CoordinateFallback(lat, lng),
            calls |-> calls, route |-> resp]

\* getAddressFromCoords without its catch block
GetAddressFromCoords_NoCatch(lat, lng, p, b, net) ==
  GetAddressTry(lat, lng, p, b, net)

GetAddressFromCoords(lat, lng, p, b, net) ==
  LET t == GetAddressTry(lat, lng, p, b, net)
  IN  IF t.threw
      THEN [t EXCEPT !.threw = FALSE, !.text = CoordinateFallback(lat, lng)]
      ELSE t

(***************************************************************************)
(* State of the booking component (TaxiBookingApp) and of the map          *)
(* (FreeMap).                                                              *)
(***************************************************************************)
VARIABLES
  mapReady,             \* FreeMap: mapInstanceRef.current is set
  handlerSetting,       \* nextLocationSetting inside the closure the map's
                        \* click listener calls ("none" before it exists)
  nextLocationSetting,  \* the armed slot
  form,                 \* form values pickupAddress, dropoffAddress
  mapMarkers,           \* the marker list handed to FreeMap
  renderedMarkers,      \* FreeMap: the markers on the map (markersRef)
  isGeocodingLocation,
  inflight,             \* map clicks awaiting getAddressFromCoords
  clickLog,             \* history: per click, the armed slot and the slot
                        \* the handler took
  resetCount,           \* history: resets so far
  lastDone,             \* history: the click whose resolution completed last
  writer,               \* history: per form field, the click whose result
                        \* was written last (0: none)
  debounceTimeout,      \* debounceTimeout.current: a timer id, 0 for null
  timers,               \* timers set by setTimeout and not yet run or cleared
  changeLog,            \* history: the address changes, in order
  streetSuggestions,
  showSuggestions,
  searchingStreets,
  searches,             \* street searches awaiting the provider
  providerCalls,        \* history: the street searches sent to the provider
  applied,              \* history: the search whose response was applied
                        \* last (0: none)
  selectLog,            \* history: the suggestions selected, in order
  currentLocation,      \* the GPS position with its address
  locationError,
  gpsPending,           \* getCurrentLocation calls awaiting the position
  gpsLog,               \* history: how the getCurrentLocation calls ended
  gpsCount,             \* history: getCurrentLocation calls so far
  mountEffects,         \* the two effects of the mount that request the
                        \* position: how far each has got
  rq,                   \* a resolve request taken alone: its inputs
  rs,                   \* and its result
  sq,                   \* a street search taken alone: its inputs
  sr,                   \* and its result
  rp,                   \* a resolve request taken alone: how far the
                        \* client call and the route have got
  isSubmitting,
  submitStatus,
  submitCount           \* history: submissions of the form so far

selVars == <<mapReady, handlerSetting, nextLocationSetting, form, mapMarkers,
             renderedMarkers,
             isGeocodingLocation, inflight, clickLog, resetCount, lastDone,
             writer>>
searchVars == <<debounceTimeout, timers, changeLog, streetSuggestions,
                showSuggestions, searchingStreets, searches, providerCalls,
                applied, selectLog>>
gpsVars == <<currentLocation, locationError, gpsPending, gpsLog, gpsCount,
             mountEffects>>
resVars == <<rq, rs, sq, sr, rp>>
subVars == <<isSubmitting, submitStatus, submitCount>>
vars == <<selVars, searchVars, gpsVars, resVars, subVars>>

Settings == {"pickup", "dropoff"}

\* the coordinates a click can report
ClickCoords == {<<5560500, 1300380>>, <<5559000, 1302000>>}

\* what getAddressFromCoords can hand back for a click, over every outcome
\* of the providers and of the call to the route
ClickResolutions ==
  { [lat |-> c[1], lng |-> c[2],
     threw |-> GetAddressFromCoords(c[1], c[2], p, b, net).threw,
     text |-> GetAddressFromCoords(c[1], c[2], p, b, net).text] :
    c \in ClickCoords, p \in PrimaryOutcomes, b \in BackupOutcomes,
    net \in NetOutcomes }

NoDone == [id |-> 0, lat |-> 0, lng |-> 0, currentSetting |-> "none",
           armed |-> "none", text |-> "", threw |-> FALSE]
NoRequest == [lat |-> 0, lng |-> 0, p |-> "none", b |-> "none", net |-> "none"]
NoResult == [done |-> FALSE]
\* the request not made yet: the client has not called fetch, the route
\* has received nothing; t is the seconds the route has spent
NoProgress == [client |-> "idle", route |-> "unsent", t |-> 0,
               response |-> [status |-> 0, success |-> FALSE, address |-> ""],
               calls |-> <<>>]
\* currentLocation when it is null
NoLocation == [known |-> FALSE, lat |-> 0, lng |-> 0, address |-> ""]

\* the booking component has just mounted: initializeLocation is awaiting
\* the permission query, requestLocationOnMount its second of delay;
\* location is the currentLocation of the render the effects belong to,
\* requests are the getCurrentLocation calls the effects have made
Mounted ==
  [initializeLocation |-> "pending", requestLocationOnMount |-> "pending",
   location |-> NoLocation, requests |-> {}]

Init ==
  /\ mapReady = FALSE
  /\ handlerSetting = "none"
  /\ nextLocationSetting = "pickup"
  /\ form = [pickupAddress |-> "", dropoffAddress |-> ""]
  /\ mapMarkers = <<>>
  /\ renderedMarkers = <<>>
  /\ isGeocodingLocation = FALSE
  /\ inflight = {}
  /\ clickLog = <<>>
  /\ resetCount = 0
  /\ lastDone = NoDone
  /\ writer = [pickupAddress |-> 0, dropoffAddress |-> 0]
  /\ debounceTimeout = 0
  /\ timers = {}
  /\ changeLog = <<>>
  /\ streetSuggestions = <<>>
  /\ showSuggestions = [pickup |-> FALSE, dropoff |-> FALSE]
  /\ searchingStreets = FALSE
  /\ searches = {}
  /\ providerCalls = <<>>
  /\ applied = 0
  /\ selectLog = <<>>
  /\ currentLocation = NoLocation
  /\ locationError = ""
  /\ gpsPending = {}
  /\ gpsLog = <<>>
  /\ gpsCount = 0
  /\ mountEffects = Mounted
  /\ rq = NoRequest
  /\ rs = NoResult
  /\ sq = NoRequest
  /\ sr = NoResult
  /\ rp = NoProgress
  /\ isSubmitting = FALSE
  /\ submitStatus = "idle"
  /\ submitCount = 0

(***************************************************************************)
(* FreeMap: the map initialization effect.  It runs once and registers a   *)
(* click listener that calls the onLocationSelect of the render the effect *)
(* belongs to; that handleMapClick reads the nextLocationSetting of its    *)
(* own render.                                                             *)
(***************************************************************************)
\* the markers effect of FreeMap: without a map it returns at once, with
\* one it removes the markers on the map and adds those of the list
MarkersEffect(ready, rendered, markers) ==
  IF ready THEN markers ELSE rendered

InitializeMap ==
  /\ ~mapReady
  /\ mapReady' = TRUE
  /\ handlerSetting' = nextLocationSetting
  /\ UNCHANGED <<nextLocationSetting, form, mapMarkers, renderedMarkers,
                 isGeocodingLocation,
                 inflight, clickLog, resetCount, lastDone, writer>>
  /\ UNCHANGED <<searchVars, gpsVars, resVars, subVars>>

(***************************************************************************)
(* The click listener of the document (handleClickOutside).  A click on    *)
(* the map, on a button or on a suggestion bubbles up to the document, so  *)
(* the listener runs at the end of every handler a click starts.           *)
(***************************************************************************)
HandleClickOutside ==
  /\ showSuggestions' = [pickup |-> FALSE, dropoff |-> FALSE]
  /\ streetSuggestions' = <<>>

\* what a click leaves alone in the autocomplete besides
otherSearchVars == <<debounceTimeout, timers, changeLog, searchingStreets,
                     searches, providerCalls, applied, selectLog>>

(***************************************************************************)
(* handleMapClick.                                                         *)
(***************************************************************************)
\* the field names exchanged
FieldName_Swapped(isSettingPickup) ==
  IF isSettingPickup THEN "dropoffAddress" ELSE "pickupAddress"

FieldName(isSettingPickup) ==
  IF isSettingPickup THEN "pickupAddress" ELSE "dropoffAddress"

MarkerTitle(isSettingPickup) ==
  IF isSettingPickup THEN "Pickup Location" ELSE "Dropoff Location"

NewNextSetting(isSettingPickup) ==
  IF isSettingPickup THEN "dropoff" ELSE "pickup"

\* the new marker added to the list as it is
ReplaceMarker_Append(prev, newMarker) == prev \o <<newMarker>>

\* prev.filter(marker => marker.type !== type && marker.type !== 'demo')
\* followed by the new marker
ReplaceMarker(prev, newMarker) ==
  SelectSeq(prev, LAMBDA m : m.type # newMarker.type /\ m.type # "demo")
    \o <<newMarker>>

\* up to the await: the slot is read, the indicator raised, the interim
\* text written, the resolution started
MapClick(lat, lng) ==
  /\ mapReady
  /\ Len(clickLog) + gpsCount < MaxClicks
  /\ LET currentSetting == handlerSetting
         fieldName == FieldName(currentSetting = "pickup")
         id == Len(clickLog) + 1
     IN  /\ isGeocodingLocation' = TRUE
         /\ form' = [form EXCEPT ![fieldName] = Interim]
         /\ inflight' = inflight \cup
              {[id |-> id, lat |-> lat, lng |-> lng,
                currentSetting |-> currentSetting,
                armed |-> nextLocationSetting]}
         /\ clickLog' = Append(clickLog,
              [armed |-> nextLocationSetting, slot |-> currentSetting,
               lat |-> lat, lng |-> lng, resets |-> resetCount])
  /\ HandleClickOutside
  /\ UNCHANGED <<mapReady, handlerSetting, nextLocationSetting, mapMarkers,
                 renderedMarkers,
                 resetCount, lastDone, writer>>
  /\ UNCHANGED <<otherSearchVars, gpsVars, resVars, subVars>>

\* from the await on: the address, the field, the marker, the next slot
ResolveComplete(r, res) ==
  /\ r \in inflight
  /\ res.lat = r.lat /\ res.lng = r.lng
  /\ LET address == IF res.threw THEN CoordinateFallback(r.lat, r.lng)
                    ELSE res.text
         isSettingPickup == r.currentSetting = "pickup"
         fieldName == FieldName(isSettingPickup)
         newMarker == [lat |-> r.lat, lng |-> r.lng,
                       title |-> MarkerTitle(isSettingPickup),
                       type |-> r.currentSetting]
     IN  /\ isGeocodingLocation' = FALSE
         /\ form' = [form EXCEPT ![fieldName] = address]
         /\ mapMarkers' = ReplaceMarker(mapMarkers, newMarker)
         /\ renderedMarkers' =
              MarkersEffect(mapReady, renderedMarkers, mapMarkers')
         /\ nextLocationSetting' = NewNextSetting(isSettingPickup)
         /\ inflight' = inflight \ {r}
         /\ lastDone' = [id |-> r.id, lat |-> r.lat, lng |-> r.lng,
                         currentSetting |-> r.currentSetting,
                         armed |-> r.armed, text |-> address,
                         threw |-> res.threw]
         /\ writer' = [writer EXCEPT ![fieldName] = r.id]
  /\ UNCHANGED <<mapReady, handlerSetting, clickLog, resetCount>>
  /\ UNCHANGED <<searchVars, gpsVars, resVars, subVars>>

(***************************************************************************)
(* resetLocationSelection.                                                 *)
(***************************************************************************)
\* a reset that keeps the dropoff marker
ResetMarkers_KeepDropoff(prev) ==
  SelectSeq(prev, LAMBDA m : m.type # "pickup" /\ m.type # "demo")

\* a reset that empties the marker list
ResetMarkers_DropAll(prev) == <<>>

\* prev.filter(marker => marker.type !== 'pickup' &&
\*   marker.type !== 'dropoff' && marker.type !== 'demo')
ResetMarkers(prev) ==
  SelectSeq(prev, LAMBDA m :
    m.type # "pickup" /\ m.type # "dropoff" /\ m.type # "demo")

\* setValue('pickupAddress', ''), setValue('dropoffAddress', '')
ResetFields(values) ==
  [values EXCEPT !.pickupAddress = "", !.dropoffAddress = ""]

\* a reset that leaves the armed slot as it is
ResetSetting_Keep(current) == current

\* setNextLocationSetting('pickup')
ResetSetting(current) == "pickup"

ResetLocationSelection ==
  /\ resetCount < MaxResets
  /\ nextLocationSetting' = ResetSetting(nextLocationSetting)
  /\ mapMarkers' = ResetMarkers(mapMarkers)
  /\ renderedMarkers' =
       MarkersEffect(mapReady, renderedMarkers, mapMarkers')
  /\ form' = ResetFields(form)
  /\ resetCount' = resetCount + 1
  /\ writer' = [pickupAddress |-> 0, dropoffAddress |-> 0]
  /\ HandleClickOutside
  /\ UNCHANGED <<mapReady, handlerSetting, isGeocodingLocation, inflight,
                 clickLog, lastDone>>
  /\ UNCHANGED <<otherSearchVars, gpsVars, resVars, subVars>>

(***************************************************************************)
(* getCurrentLocation and the auto-center effect.                          *)
(***************************************************************************)
\* navigator.geolocation exists in the browser
HasGeolocation == TRUE

GpsDigits == 6

\* the positions the device can report
GpsCoords == {<<5560712, 1300105>>}

\* the geocoding by Google Maps: no key configured, an address, a status
\* other than OK, or a fetch that throws
GoogleOutcomes == {"nokey", "ok", "notok", "throws"}

GoogleAddress == "Stortorget 2, 211 34 Malmo, Sweden"

\* `${latitude.toFixed(6)}, ${longitude.toFixed(6)}`
CoordinateText(lat, lng) ==
  ToFixed(lat, GpsDigits) \o ", " \o ToFixed(lng, GpsDigits)

\* the address of a position: Google Maps when a key is configured, then
\* getAddressFromCoords (res is what it handed back), then the coordinates
GpsAddress(lat, lng, google, res) ==
  IF google = "throws" THEN CoordinateText(lat, lng)
  ELSE LET a1 == IF google = "ok" THEN GoogleAddress ELSE ""
           a2 == IF a1 # "" THEN a1
                 ELSE IF res.threw THEN "" ELSE res.text
       IN  IF a2 = "" THEN CoordinateText(lat, lng) ELSE a2

\* the positions with the addresses found for them, over every outcome of
\* Google Maps, of the providers and of the call to the route
GpsResolutions ==
  { [lat |-> c[1], lng |-> c[2],
     address |-> GpsAddress(c[1], c[2], google,
                            GetAddressFromCoords(c[1], c[2], p, b, net))] :
    c \in GpsCoords, google \in GoogleOutcomes, p \in PrimaryOutcomes,
    b \in BackupOutcomes, net \in NetOutcomes }

\* error.code of a GeolocationPositionError; 0 for an error without code
GpsErrorCodes == {0, 1, 2, 3, 4}

\* one message for every failure
GpsErrorMessage_Same(code) ==
  "Unable to get your location. Please enter your address manually."

GpsErrorMessage(code) ==
  CASE code = 1 -> "Location access denied. Please allow location access or enter your address manually below"
    [] code = 2 -> "Location unavailable. Please check your GPS or enter your address manually"
    [] code = 3 -> "Location request timed out. Please try again or enter your address manually."
    [] code = 0 -> "Unable to get your location. Please enter your pickup location manually."
    [] OTHER -> "Unable to get your location. Please enter your address manually."

GettingLocation == "[search] Getting your location..."

Unsupported ==
  "Geolocation is not supported by this browser. Please enter your address manually."

\* currentPickupAddress.trim() === '': no text of the model is made of
\* white space only
IsBlank(text) == text = ""

\* the effect on currentLocation: the pickup field is filled when empty
AutoCenterEffect(values, location) ==
  IF location.known /\ IsBlank(values.pickupAddress)
  THEN [values EXCEPT !.pickupAddress = location.address]
  ELSE values

\* getCurrentLocation up to its await; byClick when the button called it,
\* not an effect of the mount
GetCurrentLocationCall(byClick) ==
  /\ Len(clickLog) + gpsCount < MaxClicks
  /\ gpsCount' = gpsCount + 1
  /\ IF HasGeolocation
     THEN /\ locationError' = GettingLocation
          /\ gpsPending' = gpsPending \cup {gpsCount + 1}
          /\ gpsLog' = gpsLog
     ELSE /\ locationError' = Unsupported
          /\ gpsLog' = Append(gpsLog, [id |-> gpsCount + 1,
                                       kind |-> "unsupported"])
          /\ gpsPending' = gpsPending
  /\ IF byClick THEN HandleClickOutside
     ELSE UNCHANGED <<showSuggestions, streetSuggestions>>
  /\ UNCHANGED <<currentLocation, otherSearchVars, selVars, resVars, subVars>>

GetCurrentLocation(byClick) ==
  /\ GetCurrentLocationCall(byClick)
  /\ UNCHANGED mountEffects

\* what navigator.permissions.query can end with for the effect: a state
\* of the permission, a rejection, or "noapi" without the Permissions API
PermissionOutcomes == {"granted", "prompt", "denied", "throws", "noapi"}

\* the effect calls getCurrentLocation for every outcome but 'denied'
InitializeLocationRequests(permission) ==
  HasGeolocation /\ permission # "denied"

\* the effect initializeLocation once the permission query has ended
InitializeLocation(permission) ==
  /\ mountEffects.initializeLocation = "pending"
  /\ IF InitializeLocationRequests(permission)
     THEN /\ GetCurrentLocationCall(FALSE)
          /\ mountEffects' =
               [mountEffects EXCEPT !.initializeLocation = "done",
                                    !.requests = @ \cup {gpsCount + 1}]
     ELSE /\ mountEffects' =
               [mountEffects EXCEPT !.initializeLocation = "done"]
          /\ UNCHANGED <<currentLocation, locationError, gpsPending, gpsLog,
                         gpsCount>>
          /\ UNCHANGED <<selVars, searchVars, resVars, subVars>>

\* mounted && !currentLocation && navigator.geolocation, currentLocation
\* being the one of the render the effect belongs to
RequestOnMountRequests(location) ==
  ~location.known /\ HasGeolocation

\* the effect requestLocationOnMount once its second has passed
RequestLocationOnMount ==
  /\ mountEffects.requestLocationOnMount = "pending"
  /\ IF RequestOnMountRequests(mountEffects.location)
     THEN /\ GetCurrentLocationCall(FALSE)
          /\ mountEffects' =
               [mountEffects EXCEPT !.requestLocationOnMount = "done",
                                    !.requests = @ \cup {gpsCount + 1}]
     ELSE /\ mountEffects' =
               [mountEffects EXCEPT !.requestLocationOnMount = "done"]
          /\ UNCHANGED <<currentLocation, locationError, gpsPending, gpsLog,
                         gpsCount>>
          /\ UNCHANGED <<selVars, searchVars, resVars, subVars>>

\* a position replacing the marker of its own type only
GpsMarkers_KeepOthers(prev, marker) == ReplaceMarker(prev, marker)

\* setMapMarkers([currentLocationMarker])
GpsMarkers(prev, marker) == <<marker>>

\* setValue('pickupAddress', address)
GpsPickup(values, address) == [values EXCEPT !.pickupAddress = address]

\* the position has come and its address has been found
GpsFix(g, res) ==
  /\ g \in gpsPending
  /\ res \in GpsResolutions
  /\ LET locationData == [known |-> TRUE, lat |-> res.lat, lng |-> res.lng,
                          address |-> res.address]
         currentLocationMarker ==
           [lat |-> res.lat, lng |-> res.lng,
            title |-> "[pin] Your Exact Location", type |-> "current"]
     IN  /\ currentLocation' = locationData
         /\ locationError' = ""
         /\ mapMarkers' = GpsMarkers(mapMarkers, currentLocationMarker)
         /\ renderedMarkers' =
              MarkersEffect(mapReady, renderedMarkers, mapMarkers')
         /\ form' = AutoCenterEffect(GpsPickup(form, res.address),
                                     locationData)
         /\ gpsLog' = Append(gpsLog, [id |-> g, kind |-> "fix",
                                      resets |-> resetCount])
  /\ gpsPending' = gpsPending \ {g}
  /\ UNCHANGED <<mapReady, handlerSetting, nextLocationSetting,
                 isGeocodingLocation, inflight, clickLog, resetCount,
                 lastDone, writer, gpsCount, mountEffects>>
  /\ UNCHANGED <<searchVars, resVars, subVars>>

\* the position has not come: the catch block
GpsFail(g, code) ==
  /\ g \in gpsPending
  /\ locationError' = GpsErrorMessage(code)
  /\ gpsLog' = Append(gpsLog, [id |-> g, kind |-> "fail", code |-> code,
                                resets |-> resetCount])
  /\ gpsPending' = gpsPending \ {g}
  /\ UNCHANGED <<currentLocation, gpsCount, mountEffects, selVars,
                 searchVars, resVars, subVars>>

(***************************************************************************)
(* Street autocomplete: handleAddressChange, searchStreets and             *)
(* MalmoStreetService.searchStreets.                                       *)
(***************************************************************************)
Fields == {"pickup", "dropoff"}

FormField(field) ==
  IF field = "pickup" THEN "pickupAddress" ELSE "dropoffAddress"

\* what the user can type into an address input
Queries == {"M", "Ma", "Mal"}

\* how the fetch of /api/search-streets can end for the service
SearchOutcomes == {"ok", "empty", "non2xx", "unreachable"}

\* the street the provider finds for a query
StreetName(query) ==
  IF query = "Mal" THEN "Malmovagen"
  ELSE IF query \in Queries THEN query \o "gatan"
  ELSE "Stortorget"

\* data.results of a successful search: display_name, and address its
\* part before the first comma
StreetResults(query) ==
  << [display_name |-> StreetName(query) \o ", Malmo, Sweden",
      lat |-> 5560500, lon |-> 1300380, address |-> StreetName(query)] >>

\* MalmoStreetService.searchStreets once the fetch has ended: data.results
\* or [], and [] for every failure
ServiceResults(query, outcome) ==
  IF outcome = "ok" THEN StreetResults(query) ELSE <<>>

\* a clearTimeout that clears nothing
ClearTimeout_Noop(pending, id) == pending

\* clearTimeout(id) on the set of pending timers
ClearTimeout(pending, id) == {t \in pending : t.id # id}

\* searchStreets sending the empty query only away
SearchStreets_NoMinimum(query, field, change) ==
  IF query = ""
  THEN /\ streetSuggestions' = <<>>
       /\ showSuggestions' = [showSuggestions EXCEPT ![field] = FALSE]
       /\ UNCHANGED <<searchingStreets, searches, providerCalls>>
  ELSE /\ searchingStreets' = TRUE
       /\ searches' = searches \cup
            {[id |-> Len(providerCalls) + 1, query |-> query, field |-> field]}
       /\ providerCalls' = Append(providerCalls,
            [query |-> query, field |-> field, change |-> change,
             latest |-> Len(changeLog)])
       /\ UNCHANGED <<streetSuggestions, showSuggestions>>

\* searchStreets(query, field) up to its await; change is the address
\* change that led to it (0 for a focus)
SearchStreets(query, field, change) ==
  IF query = "" \/ Len(query) < MinQueryLength
  THEN /\ streetSuggestions' = <<>>
       /\ showSuggestions' = [showSuggestions EXCEPT ![field] = FALSE]
       /\ UNCHANGED <<searchingStreets, searches, providerCalls>>
  ELSE /\ searchingStreets' = TRUE
       /\ searches' = searches \cup
            {[id |-> Len(providerCalls) + 1, query |-> query, field |-> field]}
       /\ providerCalls' = Append(providerCalls,
            [query |-> query, field |-> field, change |-> change,
             latest |-> Len(changeLog)])
       /\ UNCHANGED <<streetSuggestions, showSuggestions>>

\* the events of the address inputs so far: changes, and focuses that
\* searched
InputCount ==
  Len(changeLog)
    + Cardinality({k \in 1..Len(providerCalls) : providerCalls[k].change = 0})

\* onChange of an address input: the form keeps the value, the pending
\* timer is cleared and a new one is set
HandleAddressChange(value, field) ==
  /\ InputCount < MaxInputs
  /\ form' = [form EXCEPT ![FormField(field)] = value]
  /\ LET id == Len(changeLog) + 1
         cleared == IF debounceTimeout # 0
                    THEN ClearTimeout(timers, debounceTimeout) ELSE timers
     IN  /\ timers' = cleared \cup {[id |-> id, value |-> value, field |-> field]}
         /\ debounceTimeout' = id
         /\ changeLog' =
              [k \in 1..id |->
                 IF k = id
                 THEN [value |-> value, field |-> field, superseded |-> FALSE]
                 ELSE [changeLog[k] EXCEPT !.superseded =
                         @ \/ (\E t \in timers : t.id = k)]]
  /\ UNCHANGED <<streetSuggestions, showSuggestions, searchingStreets,
                 searches, providerCalls, applied, selectLog>>
  /\ UNCHANGED <<mapReady, handlerSetting, nextLocationSetting, mapMarkers,
                 renderedMarkers,
                 isGeocodingLocation, inflight, clickLog, resetCount,
                 lastDone, writer>>
  /\ UNCHANGED <<gpsVars, resVars, subVars>>

\* the 300 ms have passed for timer t
TimerFire(t) ==
  /\ t \in timers
  /\ timers' = timers \ {t}
  /\ SearchStreets(t.value, t.field, t.id)
  /\ UNCHANGED <<debounceTimeout, changeLog, applied, selectLog>>
  /\ UNCHANGED <<selVars, gpsVars, resVars, subVars>>

\* onFocus of an address input
FocusField(field) ==
  /\ InputCount < MaxInputs
  /\ form[FormField(field)] # ""
  /\ Len(form[FormField(field)]) >= MinQueryLength
  /\ SearchStreets(form[FormField(field)], field, 0)
  /\ UNCHANGED <<debounceTimeout, timers, changeLog, applied, selectLog>>
  /\ UNCHANGED <<selVars, gpsVars, resVars, subVars>>

\* searchStreets after its await, suggestions being what the service
\* returned
SearchResponse(s, suggestions) ==
  /\ s \in searches
  /\ suggestions \in {ServiceResults(s.query, o) : o \in SearchOutcomes}
  /\ streetSuggestions' = suggestions
  /\ showSuggestions' =
       [showSuggestions EXCEPT ![s.field] = Len(suggestions) > 0]
  /\ searchingStreets' = FALSE
  /\ searches' = searches \ {s}
  /\ applied' = s.id
  /\ UNCHANGED <<debounceTimeout, timers, changeLog, providerCalls,
                 selectLog>>
  /\ UNCHANGED <<selVars, gpsVars, resVars, subVars>>

(***************************************************************************)
(* selectStreetSuggestion.                                                 *)
(***************************************************************************)
\* the texts of the model that include "malmo" or its spelling with an
\* umlaut, whatever the case
MalmoTexts == {"Malmovagen"}

\* address.toLowerCase().includes(...)
MentionsMalmo(address) == address \in MalmoTexts

\* MalmoStreetService.formatMalmoAddress
FormatMalmoAddress(address) ==
  IF ~MentionsMalmo(address) THEN address \o ", Malmo, Sweden" ELSE address

\* a click on the i-th suggestion of the dropdown under the field
\* a selection that arms the slot after the one of its field
SelectionSetting_Advance(current, field) == NewNextSetting(field = "pickup")

\* selectStreetSuggestion has no call of setNextLocationSetting
SelectionSetting(current, field) == current

SelectStreetSuggestion(i, field) ==
  /\ showSuggestions[field]
  /\ i \in 1..Len(streetSuggestions)
  /\ LET suggestion == streetSuggestions[i]
         address == FormatMalmoAddress(suggestion.address)
         newMarker == [lat |-> suggestion.lat, lng |-> suggestion.lon,
                       title |-> MarkerTitle(field = "pickup"),
                       type |-> field]
     IN  /\ form' = [form EXCEPT ![FormField(field)] = address]
         /\ mapMarkers' = ReplaceMarker(mapMarkers, newMarker)
         /\ renderedMarkers' =
              MarkersEffect(mapReady, renderedMarkers, mapMarkers')
         /\ selectLog' = Append(selectLog,
              [field |-> field, suggestion |-> suggestion,
               inputs |-> InputCount])
  /\ nextLocationSetting' = SelectionSetting(nextLocationSetting, field)
  /\ HandleClickOutside
  /\ UNCHANGED <<debounceTimeout, timers, changeLog, searchingStreets,
                 searches, providerCalls, applied>>
  /\ UNCHANGED <<mapReady, handlerSetting, isGeocodingLocation, inflight,
                 clickLog, resetCount, lastDone, writer>>
  /\ UNCHANGED <<gpsVars, resVars, subVars>>

(***************************************************************************)
(* onSubmit, called by handleSubmit once the form passes bookingSchema.    *)
(* The fields of the passenger, the date and the time are taken as valid.  *)
(***************************************************************************)
MinAddressLength == 5

\* z.string().min(5) on pickupAddress and on dropoffAddress
AddressesValid(values) ==
  /\ Len(values.pickupAddress) >= MinAddressLength
  /\ Len(values.dropoffAddress) >= MinAddressLength

\* reset() of the form: no default value is given for the two addresses
FormReset(values) ==
  [values EXCEPT !.pickupAddress = "", !.dropoffAddress = ""]

\* up to the first await: the button is pressed, the mail is being sent
OnSubmit ==
  /\ ~isSubmitting
  /\ AddressesValid(form)
  /\ isSubmitting' = TRUE
  /\ submitStatus' = "idle"
  /\ submitCount' = submitCount + 1
  /\ HandleClickOutside
  /\ UNCHANGED <<otherSearchVars, selVars, gpsVars, resVars>>

\* from the awaits on: the mails are sent or one of them failed
SubmitEnds(sent) ==
  /\ isSubmitting
  /\ isSubmitting' = FALSE
  /\ submitStatus' = IF sent THEN "success" ELSE "error"
  /\ form' = IF sent THEN FormReset(form) ELSE form
  /\ UNCHANGED <<mapReady, handlerSetting, nextLocationSetting, mapMarkers,
                 renderedMarkers,
                 isGeocodingLocation, inflight, clickLog, resetCount,
                 lastDone, writer>>
  /\ UNCHANGED <<submitCount, searchVars, gpsVars, resVars>>

(***************************************************************************)
(* The map with its buttons: clicks, resets and positions.                 *)
(***************************************************************************)
Next ==
  \/ InitializeMap
  \/ \E c \in ClickCoords : MapClick(c[1], c[2])
  \/ \E r \in inflight, res \in ClickResolutions : ResolveComplete(r, res)
  \/ ResetLocationSelection
  \/ \E byClick \in BOOLEAN : GetCurrentLocation(byClick)
  \/ \E g \in gpsPending, res \in GpsResolutions : GpsFix(g, res)
  \/ \E g \in gpsPending, code \in GpsErrorCodes : GpsFail(g, code)

Spec == Init /\ [][Next]_vars

(***************************************************************************)
(* The mount: the two effects that request the position, the button, the  *)
(* map.                                                                    *)
(***************************************************************************)
NextMount ==
  \/ InitializeMap
  \/ \E permission \in PermissionOutcomes : InitializeLocation(permission)
  \/ RequestLocationOnMount
  \/ GetCurrentLocation(TRUE)
  \/ \E g \in gpsPending, res \in GpsResolutions : GpsFix(g, res)
  \/ \E g \in gpsPending, code \in GpsErrorCodes : GpsFail(g, code)

SpecMount == Init /\ [][NextMount]_vars

(***************************************************************************)
(* The map and the address inputs together, the providers of addresses     *)
(* being out of reach: every resolution ends with the coordinate text.     *)
(* The user types one street name.                                         *)
(***************************************************************************)
BookingQueries == {"Ma"}

DegradedClickResolutions ==
  { res \in ClickResolutions :
      res.text = CoordinateFallback(res.lat, res.lng) }

DegradedGpsResolutions ==
  { res \in GpsResolutions :
      res.address = CoordinateFallback(res.lat, res.lng) }

\* the events of the user so far
EventCount ==
  Len(clickLog) + gpsCount + resetCount + InputCount + submitCount

\* the failures of the position request taken for the form as a whole:
\* permission denied
BookingErrorCodes == {1}

NextBooking ==
  \/ InitializeMap
  \/ /\ EventCount < MaxEvents
     /\ \/ \E c \in ClickCoords : MapClick(c[1], c[2])
        \/ ResetLocationSelection
        \/ \E byClick \in BOOLEAN : GetCurrentLocation(byClick)
        \/ \E v \in BookingQueries, f \in Fields :
             HandleAddressChange(v, f)
        \/ OnSubmit
  \/ \E sent \in BOOLEAN : SubmitEnds(sent)
  \/ \E t \in timers : TimerFire(t)
  \/ \E r \in inflight, res \in DegradedClickResolutions :
       ResolveComplete(r, res)
  \/ \E g \in gpsPending, res \in DegradedGpsResolutions : GpsFix(g, res)
  \/ \E g \in gpsPending, code \in BookingErrorCodes : GpsFail(g, code)
  \/ \E s \in searches :
       \E sg \in {ServiceResults(s.query, o) : o \in SearchOutcomes} :
         SearchResponse(s, sg)
  \/ \E f \in Fields, i \in 1..Len(streetSuggestions) :
       SelectStreetSuggestion(i, f)

SpecBooking == Init /\ [][NextBooking]_vars

(***************************************************************************)
(* The address inputs taken alone.                                         *)
(***************************************************************************)
NextSearch ==
  \/ \E v \in Queries, f \in Fields : HandleAddressChange(v, f)
  \/ \E t \in timers : TimerFire(t)
  \/ \E f \in Fields : FocusField(f)
  \/ \E s \in searches :
       \E sg \in {ServiceResults(s.query, o) : o \in SearchOutcomes} :
         SearchResponse(s, sg)
  \/ \E f \in Fields, i \in 1..Len(streetSuggestions) :
       SelectStreetSuggestion(i, f)

SpecSearch == Init /\ [][NextSearch]_vars

(***************************************************************************)
(* One resolve request taken alone: getAddressFromCoords applied to a      *)
(* coordinate under one outcome of each provider and of the route call.    *)
(***************************************************************************)
ResolveCoords ==
  ClickCoords \cup {<<5560496, 1300384>>, <<-3385576, -15120935>>}

ResolveRequests ==
  { [lat |-> c[1], lng |-> c[2], p |-> p, b |-> b, net |-> net] :
    c \in ResolveCoords, p \in PrimaryOutcomes, b \in BackupOutcomes,
    net \in NetOutcomes }

InitResolve ==
  /\ mapReady = FALSE
  /\ handlerSetting = "none"
  /\ nextLocationSetting = "pickup"
  /\ form = [pickupAddress |-> "", dropoffAddress |-> ""]
  /\ mapMarkers = <<>>
  /\ renderedMarkers = <<>>
  /\ isGeocodingLocation = FALSE
  /\ inflight = {}
  /\ clickLog = <<>>
  /\ resetCount = 0
  /\ lastDone = NoDone
  /\ writer = [pickupAddress |-> 0, dropoffAddress |-> 0]
  /\ debounceTimeout = 0
  /\ timers = {}
  /\ changeLog = <<>>
  /\ streetSuggestions = <<>>
  /\ showSuggestions = [pickup |-> FALSE, dropoff |-> FALSE]
  /\ searchingStreets = FALSE
  /\ searches = {}
  /\ providerCalls = <<>>
  /\ applied = 0
  /\ selectLog = <<>>
  /\ currentLocation = NoLocation
  /\ locationError = ""
  /\ gpsPending = {}
  /\ gpsLog = <<>>
  /\ gpsCount = 0
  /\ mountEffects = Mounted
  /\ rq \in ResolveRequests
  /\ rs = NoResult
  /\ sq = NoRequest
  /\ sr = NoResult
  /\ rp = NoProgress
  /\ isSubmitting = FALSE
  /\ submitStatus = "idle"
  /\ submitCount = 0

Resolve ==
  /\ rq \in ResolveRequests
  /\ ~rs.done
  /\ LET res == GetAddressFromCoords(rq.lat, rq.lng, rq.p, rq.b, rq.net)
     IN  rs' = [done |-> TRUE, threw |-> res.threw, text |-> res.text,
                calls |-> res.calls, route |-> res.route]
  /\ UNCHANGED <<rq, sq, sr, rp, selVars, searchVars, gpsVars, subVars>>

SpecResolve == InitResolve /\ [][Resolve]_vars

(***************************************************************************)
(* One resolve request step by step: the client call from its fetch to its *)
(* return, the route from the request to its response, each from one await *)
(* to the next.  rp.t is the time the route has spent in its provider      *)
(* calls; a step of the route later than the client's timeout is taken     *)
(* after the client has aborted.                                           *)
(***************************************************************************)
\* the fetch of a provider without its AbortSignal: a provider that does
\* not answer keeps it waiting
ProviderCallEnds_NoSignal(o) == o.kind # "timeout"

\* the fetch of a provider ends: the provider answers, the fetch fails, or
\* AbortSignal.timeout(8000) aborts it
ProviderCallEnds(o) == o.kind # "timeout" \/ o.dur = ProviderTimeout

\* the route is reached and has not answered within the client's timeout
ResponseLate ==
  CASE rp.route = "primary" ->
         ~ProviderCallEnds(rq.p) \/ rp.t + rq.p.dur > ClientTimeout
    [] rp.route = "backup" ->
         ~ProviderCallEnds(rq.b) \/ rp.t + rq.b.dur > ClientTimeout
    [] rp.route = "responded" -> rp.t > ClientTimeout
    [] OTHER -> FALSE

\* a step of the route at time t is its turn
RouteTurn(t) == t <= ClientTimeout \/ rp.client # "waiting"

\* the address the route falls back to, per coordinate, the coordinate
\* having gone through the URL of the request
RouteFallbacks ==
  [c \in ResolveCoords |->
     CoordinateFallback(ParseFloat(NumberToString(c[1])),
                        ParseFloat(NumberToString(c[2])))]

\* the response of the route once its provider calls are over
RouteResponse(lat, lng, address) ==
  [status |-> 200, success |-> TRUE,
   address |-> IF address = "" THEN RouteFallbacks[<<lat, lng>>]
               ELSE address]

\* what the client returns for a response that arrived through net
ClientReturn(lat, lng, resp, net) ==
  IF net = "non2xx" \/ resp.status # 200 THEN CoordinateFallback(lat, lng)
  ELSE IF net = "badjson" THEN CoordinateFallback(lat, lng)
  ELSE IF resp.success /\ resp.address # "" THEN resp.address
  ELSE CoordinateFallback(lat, lng)

InitSteps ==
  /\ mapReady = FALSE
  /\ handlerSetting = "none"
  /\ nextLocationSetting = "pickup"
  /\ form = [pickupAddress |-> "", dropoffAddress |-> ""]
  /\ mapMarkers = <<>>
  /\ renderedMarkers = <<>>
  /\ isGeocodingLocation = FALSE
  /\ inflight = {}
  /\ clickLog = <<>>
  /\ resetCount = 0
  /\ lastDone = NoDone
  /\ writer = [pickupAddress |-> 0, dropoffAddress |-> 0]
  /\ debounceTimeout = 0
  /\ timers = {}
  /\ changeLog = <<>>
  /\ streetSuggestions = <<>>
  /\ showSuggestions = [pickup |-> FALSE, dropoff |-> FALSE]
  /\ searchingStreets = FALSE
  /\ searches = {}
  /\ providerCalls = <<>>
  /\ applied = 0
  /\ selectLog = <<>>
  /\ currentLocation = NoLocation
  /\ locationError = ""
  /\ gpsPending = {}
  /\ gpsLog = <<>>
  /\ gpsCount = 0
  /\ mountEffects = Mounted
  /\ rq \in ResolveRequests
  /\ rs = NoResult
  /\ sq = NoRequest
  /\ sr = NoResult
  /\ rp = NoProgress
  /\ isSubmitting = FALSE
  /\ submitStatus = "idle"
  /\ submitCount = 0

stepFrame == <<rq, sq, sr, selVars, searchVars, gpsVars, subVars>>

\* getAddressFromCoords up to its await: fetch is called
ClientFetch ==
  /\ rp.client = "idle"
  /\ rp' = [rp EXCEPT !.client = "waiting",
                      !.route = IF rq.net = "unreachable" THEN "unreached"
                                ELSE "requested"]
  /\ UNCHANGED <<rs, stepFrame>>

\* the route up to its first await: both parameters are there, the
\* primary provider is called
RouteReceives ==
  /\ rp.route = "requested"
  /\ rp' = [rp EXCEPT !.route = "primary", !.calls = <<"primary">>]
  /\ UNCHANGED <<rs, stepFrame>>

\* the call to the primary provider is over: with an address the route
\* answers, without one it calls the backup provider
PrimaryEnds ==
  /\ rp.route = "primary"
  /\ ProviderCallEnds(rq.p)
  /\ RouteTurn(rp.t + rq.p.dur)
  /\ rp' = IF PrimaryAddress(rq.p) # ""
           THEN [rp EXCEPT !.route = "responded", !.t = @ + rq.p.dur,
                           !.response =
                              RouteResponse(rq.lat, rq.lng,
                                            PrimaryAddress(rq.p))]
           ELSE [rp EXCEPT !.route = "backup", !.t = @ + rq.p.dur,
                           !.calls = Append(@, "backup")]
  /\ UNCHANGED <<rs, stepFrame>>

\* the call to the backup provider is over: the route answers
BackupEnds ==
  /\ rp.route = "backup"
  /\ ProviderCallEnds(rq.b)
  /\ RouteTurn(rp.t + rq.b.dur)
  /\ rp' = [rp EXCEPT !.route = "responded", !.t = @ + rq.b.dur,
                      !.response =
                         RouteResponse(rq.lat, rq.lng, BackupAddress(rq.b))]
  /\ UNCHANGED <<rs, stepFrame>>

\* getAddressFromCoords from its await on, the fetch having rejected at
\* once or the response having arrived in time
ClientResumes ==
  /\ rp.client = "waiting"
  /\ \/ /\ rp.route = "unreached"
        /\ rs' = [done |-> TRUE, threw |-> FALSE,
                  text |-> CoordinateFallback(rq.lat, rq.lng),
                  calls |-> <<>>, aborted |-> FALSE]
     \/ /\ rp.route = "responded"
        /\ rp.t <= ClientTimeout
        /\ rs' = [done |-> TRUE, threw |-> FALSE,
                  text |-> ClientReturn(rq.lat, rq.lng, rp.response, rq.net),
                  calls |-> rp.calls, aborted |-> FALSE]
  /\ rp' = [rp EXCEPT !.client = "done"]
  /\ UNCHANGED stepFrame

\* getAddressFromCoords from its await on, AbortSignal.timeout(12000)
\* having aborted the fetch
ClientAborts ==
  /\ rp.client = "waiting"
  /\ ResponseLate
  /\ rs' = [done |-> TRUE, threw |-> FALSE,
            text |-> CoordinateFallback(rq.lat, rq.lng),
            calls |-> rp.calls, aborted |-> TRUE]
  /\ rp' = [rp EXCEPT !.client = "done"]
  /\ UNCHANGED stepFrame

NextSteps ==
  \/ ClientFetch
  \/ RouteReceives
  \/ PrimaryEnds
  \/ BackupEnds
  \/ ClientResumes
  \/ ClientAborts

\* every call that can end does end, and the code between two awaits runs
FairSteps ==
  /\ WF_vars(ClientFetch)
  /\ WF_vars(RouteReceives)
  /\ WF_vars(PrimaryEnds)
  /\ WF_vars(BackupEnds)
  /\ WF_vars(ClientResumes)
  /\ WF_vars(ClientAborts)

SpecSteps == InitSteps /\ [][NextSteps]_vars /\ FairSteps

(***************************************************************************)
(* GET /api/search-streets and MalmoStreetService.searchStreets.  An item  *)
(* of the provider has its display_name as the sequence of its parts       *)
(* between commas, and its lat and lon as character sequences.             *)
(***************************************************************************)
Item(class, type, parts, lat, lon) ==
  [class |-> class, type |-> type, parts |-> parts, lat |-> lat, lon |-> lon]

Lat1 == <<"5", "5", ".", "6", "0", "5">>
Lon1 == <<"1", "3", ".", "0", "0", "3", "8">>
Lat2 == <<"5", "5", ".", "7", "0", "4", "7">>
Lon2 == <<"1", "3", ".", "1", "9", "1">>

MalmoStreet == Item("highway", "residential",
                    <<"Magatan", "Malmo", "Sweden">>, Lat1, Lon1)
MalmoPlace == Item("building", "yes",
                   <<"Malmo Arena", "Hyllie", "Sweden">>, Lat1, Lon1)
LundStreet == Item("highway", "primary",
                   <<"Storgatan", "Lund", "Sweden">>, Lat2, Lon2)
LundCafe == Item("amenity", "cafe",
                 <<"Cafe Ariman", "Lund", "Sweden">>, Lat2, Lon2)

\* MALMO_BOUNDS, in 1e-5 degrees
MalmoBounds ==
  [north |-> 5565000, south |-> 5555000, east |-> 1310000, west |-> 1290000]

\* MalmoStreetService.isInMalmo
IsInMalmo(lat, lon) ==
  /\ lat >= MalmoBounds.south
  /\ lat <= MalmoBounds.north
  /\ lon >= MalmoBounds.west
  /\ lon <= MalmoBounds.east

SearchProviderAnswer(kind, items) == [kind |-> kind, items |-> items]

\* how the fetch of the search provider can end for the route
SearchProviderOutcomes ==
  { SearchProviderAnswer("ok", <<MalmoStreet>>),
    SearchProviderAnswer("ok", <<LundCafe, LundStreet, MalmoPlace>>),
    SearchProviderAnswer("ok", <<MalmoStreet, MalmoPlace, MalmoStreet,
                                 MalmoPlace, MalmoStreet, MalmoPlace,
                                 LundStreet>>),
    SearchProviderAnswer("ok", <<>>),
    SearchProviderAnswer("non2xx", <<>>),
    SearchProviderAnswer("badjson", <<>>),
    SearchProviderAnswer("unreachable", <<>>) }

RECURSIVE JoinParts(_)
JoinParts(parts) ==
  IF parts = <<>> THEN ""
  ELSE IF Len(parts) = 1 THEN parts[1]
  ELSE parts[1] \o ", " \o JoinParts(Tail(parts))

\* the parts of the model that include "malmo" or its spelling with an
\* umlaut, whatever the case
MalmoParts == {"Malmo", "Malmo Arena", "Malmovagen"}

\* item.display_name.toLowerCase().includes(...)
DisplayNameInMalmo(item) ==
  \E i \in 1..Len(item.parts) : item.parts[i] \in MalmoParts

IsStreet(item) ==
  item.class = "highway" \/ item.class = "place" \/ item.type = "residential"

ResultLimit == 6

\* the filter of the route: a street, or something in Malmo
KeepsItem(item) == IsStreet(item) \/ DisplayNameInMalmo(item)

\* .slice(0, 6)
FirstResults(kept) ==
  SubSeq(kept, 1, IF Len(kept) < ResultLimit THEN Len(kept) ELSE ResultLimit)

\* the object the route makes of one item, given its display_name
ShapeResult(item, name) ==
  [display_name |-> name,
   lat |-> ParseFloat(item.lat),
   lon |-> ParseFloat(item.lon),
   address |-> item.parts[1],
   full_address |-> name,
   type |-> item.type,
   class |-> item.class]

\* .map(...)
ShapeResults(cut) ==
  [i \in 1..Len(cut) |-> ShapeResult(cut[i], JoinParts(cut[i].parts))]

\* .filter(...).slice(0, 6).map(...)
ProcessResults(items) ==
  ShapeResults(FirstResults(SelectSeq(items, KeepsItem)))

NoRouteResponse == [status |-> 0, results |-> <<>>, calls |-> 0]

\* the route without its test of q
SearchStreetsRoute_NoCheck(q, prov) ==
  IF prov.kind # "ok"
  THEN [status |-> 500, results |-> <<>>, calls |-> 1]
  ELSE [status |-> 200, results |-> ProcessResults(prov.items), calls |-> 1]

\* the route; q is "" when the parameter is absent or empty
SearchStreetsRoute(q, prov) ==
  IF q = ""
  THEN [status |-> 400, results |-> <<>>, calls |-> 0]
  ELSE IF prov.kind # "ok"
  THEN [status |-> 500, results |-> <<>>, calls |-> 1]
  ELSE [status |-> 200, results |-> ProcessResults(prov.items), calls |-> 1]

\* the try block of MalmoStreetService.searchStreets after its guard, given
\* the response of the route: what it returns, or that it threw
MalmoSearchTry(resp, net) ==
  IF net = "unreachable"
    THEN [threw |-> TRUE, results |-> <<>>, fetched |-> TRUE,
          route |-> NoRouteResponse]
  ELSE IF net = "non2xx" \/ resp.status # 200
    THEN [threw |-> TRUE, results |-> <<>>, fetched |-> TRUE, route |-> resp]
  ELSE IF net = "badjson"
    THEN [threw |-> TRUE, results |-> <<>>, fetched |-> TRUE, route |-> resp]
  ELSE [threw |-> FALSE, results |-> resp.results, fetched |-> TRUE,
        route |-> resp]

\* the catch block of MalmoStreetService.searchStreets
MalmoSearchCatch(t) ==
  IF t.threw THEN [t EXCEPT !.threw = FALSE, !.results = <<>>] ELSE t

NoFetch ==
  [threw |-> FALSE, results |-> <<>>, fetched |-> FALSE,
   route |-> NoRouteResponse]

\* MalmoStreetService.searchStreets without its catch block
MalmoSearchStreets_NoCatch(query, prov, net) ==
  IF query = "" \/ Len(query) < MinQueryLength
  THEN NoFetch
  ELSE MalmoSearchTry(SearchStreetsRoute(query, prov), net)

MalmoSearchStreets(query, prov, net) ==
  IF query = "" \/ Len(query) < MinQueryLength
  THEN NoFetch
  ELSE MalmoSearchCatch(MalmoSearchTry(SearchStreetsRoute(query, prov), net))

\* the try, catch and finally blocks of searchStreets of the booking form,
\* given what the service call ended with
SetSuggestions(svc) ==
  IF svc.threw
  THEN [threw |-> FALSE, called |-> TRUE, suggestions |-> <<>>,
        show |-> FALSE, searching |-> FALSE, service |-> svc]
  ELSE [threw |-> FALSE, called |-> TRUE, suggestions |-> svc.results,
        show |-> Len(svc.results) > 0, searching |-> FALSE, service |-> svc]

\* searchStreets of the booking form from its call to its end: the
\* suggestions it sets and whether the dropdown of the field is shown
SearchStreetsOutcome(query, prov, net) ==
  IF query = "" \/ Len(query) < MinQueryLength
  THEN [threw |-> FALSE, called |-> FALSE, suggestions |-> <<>>,
        show |-> FALSE, searching |-> FALSE, service |-> NoFetch]
  ELSE SetSuggestions(MalmoSearchStreets(query, prov, net))

\* what the user can have in an address input
StreetQueries == {"", "M", "Ma", "Mal"}

StreetRequests ==
  { [query |-> q, field |-> f, prov |-> prov, net |-> net] :
    q \in StreetQueries, f \in Fields, prov \in SearchProviderOutcomes,
    net \in NetOutcomes }

InitStreets ==
  /\ mapReady = FALSE
  /\ handlerSetting = "none"
  /\ nextLocationSetting = "pickup"
  /\ form = [pickupAddress |-> "", dropoffAddress |-> ""]
  /\ mapMarkers = <<>>
  /\ renderedMarkers = <<>>
  /\ isGeocodingLocation = FALSE
  /\ inflight = {}
  /\ clickLog = <<>>
  /\ resetCount = 0
  /\ lastDone = NoDone
  /\ writer = [pickupAddress |-> 0, dropoffAddress |-> 0]
  /\ debounceTimeout = 0
  /\ timers = {}
  /\ changeLog = <<>>
  /\ streetSuggestions = <<>>
  /\ showSuggestions = [pickup |-> FALSE, dropoff |-> FALSE]
  /\ searchingStreets = FALSE
  /\ searches = {}
  /\ providerCalls = <<>>
  /\ applied = 0
  /\ selectLog = <<>>
  /\ currentLocation = NoLocation
  /\ locationError = ""
  /\ gpsPending = {}
  /\ gpsLog = <<>>
  /\ gpsCount = 0
  /\ mountEffects = Mounted
  /\ rq = NoRequest
  /\ rs = NoResult
  /\ sq \in StreetRequests
  /\ sr = NoResult
  /\ rp = NoProgress
  /\ isSubmitting = FALSE
  /\ submitStatus = "idle"
  /\ submitCount = 0

StreetSearch ==
  /\ sq \in StreetRequests
  /\ ~sr.done
  /\ sr' = [done |-> TRUE,
            out |-> SearchStreetsOutcome(sq.query, sq.prov, sq.net)]
  /\ UNCHANGED <<sq, rq, rs, rp, selVars, searchVars, gpsVars, subVars>>

SpecStreets == InitStreets /\ [][StreetSearch]_vars

(***************************************************************************)
(* The requests taken alone, one per behaviour: a call of                  *)
(* getAddressFromCoords, a call of searchStreets, a GET of /api/geocode or *)
(* a GET of /api/search-streets as any client can send them.               *)
(***************************************************************************)
\* a query parameter of a GET: <<>> when it is absent or empty
ParamValues == {<<>>, NumberToString(5560500), NumberToString(1300380)}

GeocodeRequests ==
  { [lat |-> la, lng |-> ln, p |-> p, b |-> b] :
    la \in ParamValues, ln \in ParamValues, p \in PrimaryOutcomes,
    b \in BackupOutcomes }

SearchRouteRequests ==
  { [q |-> q, prov |-> prov] :
    q \in {"", "Ma"}, prov \in SearchProviderOutcomes }

InitRoutes ==
  /\ mapReady = FALSE
  /\ handlerSetting = "none"
  /\ nextLocationSetting = "pickup"
  /\ form = [pickupAddress |-> "", dropoffAddress |-> ""]
  /\ mapMarkers = <<>>
  /\ renderedMarkers = <<>>
  /\ isGeocodingLocation = FALSE
  /\ inflight = {}
  /\ clickLog = <<>>
  /\ resetCount = 0
  /\ lastDone = NoDone
  /\ writer = [pickupAddress |-> 0, dropoffAddress |-> 0]
  /\ debounceTimeout = 0
  /\ timers = {}
  /\ changeLog = <<>>
  /\ streetSuggestions = <<>>
  /\ showSuggestions = [pickup |-> FALSE, dropoff |-> FALSE]
  /\ searchingStreets = FALSE
  /\ searches = {}
  /\ providerCalls = <<>>
  /\ applied = 0
  /\ selectLog = <<>>
  /\ currentLocation = NoLocation
  /\ locationError = ""
  /\ gpsPending = {}
  /\ gpsLog = <<>>
  /\ gpsCount = 0
  /\ mountEffects = Mounted
  /\ \/ rq \in GeocodeRequests /\ sq = NoRequest
     \/ rq = NoRequest /\ sq \in SearchRouteRequests
  /\ rs = NoResult
  /\ sr = NoResult
  /\ rp = NoProgress
  /\ isSubmitting = FALSE
  /\ submitStatus = "idle"
  /\ submitCount = 0

\* GET /api/geocode
GeocodeGet ==
  /\ rq \in GeocodeRequests
  /\ ~rs.done
  /\ rs' = [done |-> TRUE, resp |-> GeocodeRoute(rq.lat, rq.lng, rq.p, rq.b)]
  /\ UNCHANGED <<rq, sq, sr, rp, selVars, searchVars, gpsVars, subVars>>

\* GET /api/search-streets
SearchGet ==
  /\ sq \in SearchRouteRequests
  /\ ~sr.done
  /\ sr' = [done |-> TRUE, resp |-> SearchStreetsRoute(sq.q, sq.prov)]
  /\ UNCHANGED <<sq, rq, rs, rp, selVars, searchVars, gpsVars, subVars>>

InitRequests == InitResolve \/ InitStreets \/ InitRoutes

NextRequests ==
  \/ Resolve
  \/ StreetSearch
  \/ GeocodeGet
  \/ SearchGet

SpecRequests == InitRequests /\ [][NextRequests]_vars

(***************************************************************************)
(* Properties.                                                             *)
(***************************************************************************)
MarkersOfType(ms, type) == SelectSeq(ms, LAMBDA m : m.type = type)

\* the markers hold exactly one marker of the type, at the coordinate
OneMarkerAt(ms, type, lat, lng) ==
  /\ Len(MarkersOfType(ms, type)) = 1
  /\ MarkersOfType(ms, type)[1].lat = lat
  /\ MarkersOfType(ms, type)[1].lng = lng

\* the clicks of the log the handler took for the slot
ClicksOf(slot) == {k \in 1..Len(clickLog) : clickLog[k].slot = slot}

SetMax(S) == CHOOSE m \in S : \A n \in S : n <= m

\* C1: starting with PICKUP armed, the k-th of N consecutive map clicks is
\* taken for PICKUP when k is odd and for DROPOFF when k is even, whatever
\* the resolutions in flight or their outcomes.
C1_SelectionCycling ==
  \A k \in 1..Len(clickLog) :
    clickLog[k].resets = 0 =>
      clickLog[k].slot = IF k % 2 = 1 THEN "pickup" ELSE "dropoff"

\* C2: getAddressFromCoords never fails to its caller and its text is never
\* empty, for every outcome of the primary provider, of the backup provider
\* and of the call to /api/geocode.
C2_ResolveNeverFails ==
  rs.done => (~rs.threw /\ rs.text # "" /\ Len(rs.text) > 0)

C2_Witness ==
  /\ rs.done
  /\ rq.p.kind = "timeout"
  /\ rq.b.kind = "unreachable"
  /\ rq.net = "unreachable"
  /\ rs.text # ""

\* C3: the providers are tried in priority order and the first success
\* ends the attempt: an address from the primary is the route's address
\* verbatim and the backup is not called; the backup is called only after
\* the primary, and only when the primary gave no address.
C3_PrimaryFirst ==
  rs.done =>
    LET primaryGave == rq.p.kind = "ok" /\ rq.p.display_name # ""
        called == {rs.route.calls[i] : i \in 1..Len(rs.route.calls)}
    IN  /\ rs.route.calls \in {<<"primary">>, <<"primary", "backup">>}
        /\ primaryGave =>
             /\ rs.route.address = rq.p.display_name
             /\ "backup" \notin called
             /\ rq.net = "ok" => rs.text = rq.p.display_name
        /\ "backup" \in called => ~primaryGave

C3_Witness ==
  /\ rs.done
  /\ rq.p.kind = "ok" /\ rq.p.display_name = "Stortorget 1, Malmo"
  /\ rq.b.kind = "ok" /\ rq.b.city = "Malmo" /\ rq.b.countryName = "Sweden"
  /\ rq.net = "ok"
  /\ rs.route.calls = <<"primary">>
  /\ rs.text = "Stortorget 1, Malmo"

\* text is the glyph followed by lat and lng, each the decimal with 4
\* fraction digits nearest to the coordinate
IsDegradedAddress(text, lat, lng) ==
  \E n \in (Abs(lat) \div 10)..(Abs(lat) \div 10 + 1),
     m \in (Abs(lng) \div 10)..(Abs(lng) \div 10 + 1) :
    /\ Abs(10 * n - Abs(lat)) <= 5
    /\ Abs(10 * m - Abs(lng)) <= 5
    /\ text = Glyph
         \o (IF lat < 0 THEN "-" ELSE "")
         \o StrOfDigits(Digits(n \div 10000)) \o "."
         \o StrOfDigits(PadDigits(n % 10000, 4))
         \o ", "
         \o (IF lng < 0 THEN "-" ELSE "")
         \o StrOfDigits(Digits(m \div 10000)) \o "."
         \o StrOfDigits(PadDigits(m % 10000, 4))

\* C4: when no provider gives an address, and when the client cannot reach
\* the route, gets a failure from it or runs out of time, the text is the
\* glyph followed by the latitude and the longitude rounded to 4 decimals.
C4_DegradedAddress ==
  rs.done =>
    LET primaryFailed == rq.p.kind # "ok" \/ rq.p.display_name = ""
        backupFailed == rq.b.kind # "ok" \/ rq.b.city = "" \/ rq.b.countryName = ""
        late == primaryFailed /\ rq.p.dur + rq.b.dur > ClientTimeout
    IN  ((primaryFailed /\ backupFailed) \/ rq.net # "ok" \/ late)
          => IsDegradedAddress(rs.text, rq.lat, rq.lng)

C4_Witness ==
  /\ rs.done
  /\ rq.lat = 5560496 /\ rq.lng = 1300384
  /\ rq.p.kind = "non2xx"
  /\ rq.b.kind = "unreachable"
  /\ rq.net = "ok"
  /\ rs.text = "[pin] 55.6050, 13.0038"

\* C5: a map click made while PICKUP is armed writes into the pickup field
\* only, and when its resolution completes the pickup field holds a text
\* resolved for the click coordinate, the dropoff field is as it was, the
\* one PICKUP marker is at the click coordinate and DROPOFF is armed.
C5_ClickWhilePickup ==
  [][ /\ (Len(clickLog') > Len(clickLog) /\ nextLocationSetting = "pickup")
           => /\ form'.dropoffAddress = form.dropoffAddress
              /\ form'.pickupAddress = Interim
      /\ \A r \in inflight :
           (r \notin inflight' /\ r.armed = "pickup") =>
             /\ \E e \in ClickResolutions :
                  /\ e.lat = r.lat /\ e.lng = r.lng
                  /\ form'.pickupAddress = e.text
             /\ form'.pickupAddress # Interim
             /\ form'.dropoffAddress = form.dropoffAddress
             /\ OneMarkerAt(mapMarkers', "pickup", r.lat, r.lng)
             /\ MarkersOfType(mapMarkers', "dropoff")
                  = MarkersOfType(mapMarkers, "dropoff")
             /\ nextLocationSetting' = "dropoff" ]_vars

C5_Witness ==
  /\ lastDone.id = 1
  /\ lastDone.armed = "pickup"
  /\ lastDone.lat = 5560500 /\ lastDone.lng = 1300380
  /\ form.pickupAddress = "Stortorget 1, Malmo"
  /\ form.dropoffAddress = ""
  /\ OneMarkerAt(mapMarkers, "pickup", 5560500, 1300380)
  /\ nextLocationSetting = "dropoff"

\* C6: a map click made while DROPOFF is armed writes into the dropoff
\* field only, and when its resolution completes the dropoff field holds
\* the resolved text, the pickup field is as it was, the one DROPOFF marker
\* is at the click coordinate and PICKUP is armed.
C6_ClickWhileDropoff ==
  [][ /\ (Len(clickLog') > Len(clickLog) /\ nextLocationSetting = "dropoff")
           => /\ form'.pickupAddress = form.pickupAddress
              /\ form'.dropoffAddress = Interim
      /\ \A r \in inflight :
           (r \notin inflight' /\ r.armed = "dropoff") =>
             /\ \E e \in ClickResolutions :
                  /\ e.lat = r.lat /\ e.lng = r.lng
                  /\ form'.dropoffAddress = e.text
             /\ form'.pickupAddress = form.pickupAddress
             /\ OneMarkerAt(mapMarkers', "dropoff", r.lat, r.lng)
             /\ nextLocationSetting' = "pickup" ]_vars

\* C7: the field and the marker written when the resolution of a click
\* completes are those of the slot that was armed when the click was
\* received, whatever nextLocationSetting has become since.
C7_SlotCapturedAtClick ==
  [][ \A r \in inflight :
        r \notin inflight' =>
          /\ writer'[FormField(r.armed)] = r.id
          /\ form'[FormField(r.armed)] = lastDone'.text
          /\ OneMarkerAt(mapMarkers', r.armed, r.lat, r.lng) ]_vars

\* C8: when two clicks for the same slot overlap, the field and the marker
\* of the slot end up with the result of the later click, in whichever
\* order the two resolutions complete.
C8_LastWriteWins ==
  \A slot \in Settings :
    ( /\ resetCount = 0
      /\ ClicksOf(slot) # {}
      /\ \A r \in inflight : r.currentSetting # slot )
    => LET last == SetMax(ClicksOf(slot))
       IN  OneMarkerAt(mapMarkers, slot, clickLog[last].lat,
                       clickLog[last].lng)

\* C9: once every search has been answered, the suggestions on display are
\* those of the search issued last, in whichever order the answers came: a
\* list on display is never the list of an earlier query.
C9_StaleSuggestionsDiscarded ==
  (searches = {} /\ applied # 0 /\ streetSuggestions # <<>>) =>
    streetSuggestions = StreetResults(providerCalls[Len(providerCalls)].query)

\* C10: an address change made while the timer of the previous change is
\* still pending cancels it: a change superseded that way never reaches the
\* provider, and a search sent for a change is sent once, for the latest
\* change, with its value.
C10_Debounce ==
  /\ \A k \in 1..Len(changeLog) :
       changeLog[k].superseded =>
         \A i \in 1..Len(providerCalls) : providerCalls[i].change # k
  /\ \A i \in 1..Len(providerCalls) :
       providerCalls[i].change # 0 =>
         /\ providerCalls[i].latest = providerCalls[i].change
         /\ providerCalls[i].query = changeLog[providerCalls[i].change].value
         /\ \A j \in 1..Len(providerCalls) :
              providerCalls[j].change = providerCalls[i].change => j = i

C10_Witness ==
  /\ Len(changeLog) = 2
  /\ changeLog[1].value = "Ma" /\ changeLog[1].field = "pickup"
  /\ changeLog[1].superseded
  /\ changeLog[2].value = "Mal" /\ changeLog[2].field = "pickup"
  /\ timers = {}
  /\ Len(providerCalls) = 1
  /\ providerCalls[1].query = "Mal"
  /\ providerCalls[1].change = 2

\* the step is the end of a getCurrentLocation call that got a position
GpsFixStep ==
  /\ Len(gpsLog') > Len(gpsLog)
  /\ gpsLog'[Len(gpsLog')].kind = "fix"

ResetStep == resetCount' > resetCount

\* C11: a GPS fix writes its address into the pickup field only when the
\* field is empty at that moment; a pickup field that holds a text is as it
\* was after the fix.
C11_GpsFillsEmptyPickupOnly ==
  [][ GpsFixStep =>
        form'.pickupAddress =
          IF form.pickupAddress = "" THEN currentLocation'.address
          ELSE form.pickupAddress ]_vars

\* C12: a GPS fix replaces the CURRENT marker only: the PICKUP and the
\* DROPOFF markers of before the fix are there, unchanged, after it.
C12_GpsKeepsSelectionMarkers ==
  [][ GpsFixStep =>
        /\ MarkersOfType(mapMarkers', "pickup")
             = MarkersOfType(mapMarkers, "pickup")
        /\ MarkersOfType(mapMarkers', "dropoff")
             = MarkersOfType(mapMarkers, "dropoff") ]_vars

\* C12 as amended: a GPS fix replaces the whole marker list by the one
\* CURRENT marker of the position: no PICKUP, DROPOFF or DEMO marker of
\* before the fix is left after it.
C12_GpsReplacesMarkerList ==
  [][ GpsFixStep =>
        /\ Len(mapMarkers') = 1
        /\ mapMarkers'[1].type = "current"
        /\ mapMarkers'[1].lat = currentLocation'.lat
        /\ mapMarkers'[1].lng = currentLocation'.lng ]_vars

C12_Witness ==
  /\ lastDone.id = 1
  /\ inflight = {}
  /\ Len(gpsLog) = 1 /\ gpsLog[1].kind = "fix"
  /\ Len(mapMarkers) = 1
  /\ mapMarkers[1].type = "current"
  /\ form.pickupAddress # ""

\* the state a reset leaves: PICKUP armed, both fields empty, no PICKUP and
\* no DROPOFF marker
IsResetState(armed, values, markers) ==
  /\ armed = "pickup"
  /\ values.pickupAddress = "" /\ values.dropoffAddress = ""
  /\ MarkersOfType(markers, "pickup") = <<>>
  /\ MarkersOfType(markers, "dropoff") = <<>>

\* C13: from any state a reset arms PICKUP, empties the pickup and the
\* dropoff field and removes the PICKUP and the DROPOFF marker; a reset of
\* a state that a reset has left changes nothing of these.
C13_Reset ==
  [][ ResetStep =>
        /\ IsResetState(nextLocationSetting', form', mapMarkers')
        /\ IsResetState(nextLocationSetting, form, mapMarkers) =>
             /\ nextLocationSetting' = nextLocationSetting
             /\ form' = form
             /\ mapMarkers' = mapMarkers ]_vars

C13_Witness ==
  /\ resetCount = 2
  /\ Len(selectLog) = 1 /\ selectLog[1].field = "dropoff"
  /\ Len(clickLog) = 1 /\ clickLog[1].resets = 0
  /\ lastDone.id = 1 /\ inflight = {}
  /\ nextLocationSetting = "pickup"
  /\ form = [pickupAddress |-> "", dropoffAddress |-> ""]
  /\ mapMarkers = <<>>

\* C14: a reset leaves the CURRENT marker as it is: a CURRENT marker of
\* before the reset is the CURRENT marker after it.
C14_ResetKeepsCurrent ==
  [][ ResetStep =>
        MarkersOfType(mapMarkers', "current")
          = MarkersOfType(mapMarkers, "current") ]_vars

C14_Witness ==
  /\ Len(gpsLog) = 1 /\ gpsLog[1].kind = "fix" /\ gpsLog[1].resets = 0
  /\ resetCount = 1
  /\ lastDone.id = 1 /\ inflight = {}
  /\ Len(mapMarkers) = 1
  /\ OneMarkerAt(mapMarkers, "current", 5560712, 1300105)

MarkerTypes == {"current", "pickup", "dropoff", "demo"}

\* C15: in every reachable state the marker list holds at most one marker
\* of each type, whatever the clicks, the selections of suggestions, the
\* GPS fixes and the resets, and the order their resolutions complete in.
C15_OneMarkerPerType ==
  \A type \in MarkerTypes : Len(MarkersOfType(mapMarkers, type)) <= 1

C15_Witness ==
  /\ lastDone.id = 1 /\ lastDone.lat = 5559000 /\ inflight = {}
  /\ Len(selectLog) = 1 /\ selectLog[1].field = "pickup"
  /\ OneMarkerAt(mapMarkers, "pickup", 5560500, 1300380)
  /\ OneMarkerAt(mapMarkers, "current", 5560712, 1300105)

\* C16: from the click on, the field the click is for holds the interim
\* text as long as the resolution of the click is in flight and no result
\* has been written for the slot; the user's own reset, typing and
\* selection of a suggestion apart.
C16_InterimWhileInFlight ==
  [][ /\ \A r \in inflight' \ inflight :
           form'[FieldName(r.currentSetting = "pickup")] = Interim
      /\ \A r \in inflight \cap inflight' :
           ( /\ form[FieldName(r.currentSetting = "pickup")] = Interim
             /\ inflight' = inflight
             /\ ~ResetStep
             /\ Len(changeLog') = Len(changeLog)
             /\ Len(selectLog') = Len(selectLog) )
           => form'[FieldName(r.currentSetting = "pickup")] = Interim
    ]_vars

\* C17: a query shorter than 2 characters never reaches the provider: when
\* the timer of such a query runs, no search is sent, the suggestion list
\* is emptied and the dropdown of the field is hidden.
C17_ShortQueryNoCall ==
  [][ /\ \A i \in 1..Len(providerCalls') : Len(providerCalls'[i].query) >= 2
      /\ \A t \in timers :
           ( /\ t \notin timers'
             /\ Len(changeLog') = Len(changeLog)
             /\ Len(t.value) < 2 )
           => /\ providerCalls' = providerCalls
              /\ searches' = searches
              /\ streetSuggestions' = <<>>
              /\ ~showSuggestions'[t.field] ]_vars

C17_Witness ==
  /\ Len(changeLog) = 2
  /\ changeLog[1].value = "Ma" /\ changeLog[1].field = "pickup"
  /\ ~changeLog[1].superseded
  /\ changeLog[2].value = "M" /\ changeLog[2].field = "pickup"
  /\ timers = {}
  /\ applied = 1 /\ searches = {}
  /\ Len(providerCalls) = 1 /\ providerCalls[1].query = "Ma"
  /\ streetSuggestions = <<>>
  /\ ~showSuggestions.pickup

\* no address input has had a change or a search of its own since the
\* last selection of a suggestion
NothingTypedSinceSelection ==
  /\ Len(selectLog) > 0
  /\ selectLog[Len(selectLog)].inputs = InputCount

\* C19: the selection of a suggestion ends its query: the text of the
\* suggestion is in the field of the dropdown, its coordinate is the one
\* marker of that slot, no reverse geocoding is started, and the suggestion
\* list is empty from then on until the user types again.
C19_SelectionIsTerminal ==
  [][ /\ Len(selectLog') > Len(selectLog) =>
           LET sel == selectLog'[Len(selectLog')]
           IN  /\ form'[FormField(sel.field)]
                    \in {sel.suggestion.address,
                         sel.suggestion.address \o ", Malmo, Sweden"}
               /\ OneMarkerAt(mapMarkers', sel.field, sel.suggestion.lat,
                              sel.suggestion.lon)
               /\ inflight' = inflight
               /\ streetSuggestions' = <<>>
      /\ NothingTypedSinceSelection' => streetSuggestions' = <<>> ]_vars

\* the search provider or the way to it failed for the request sq
SearchFailed ==
  sq.net # "ok" \/ sq.prov.kind # "ok"

\* C18: when the search provider fails (it cannot be reached, or it or the
\* route answers with a failure), the search ends with an empty suggestion
\* list and a hidden dropdown, no error is shown, and nothing is thrown out
\* of searchStreets, neither of the service nor of the booking form.
C18_SearchFailureIsSilent ==
  sr.done =>
    /\ ~sr.out.threw
    /\ ~sr.out.service.threw
    /\ (sr.out.called /\ SearchFailed) =>
         /\ sr.out.service.results = <<>>
         /\ sr.out.suggestions = <<>>
         /\ ~sr.out.show
         /\ ~sr.out.searching
         /\ locationError = ""

C18_Witness ==
  /\ sr.done
  /\ sq.query = "Ma" /\ sq.net = "ok" /\ sq.prov.kind = "non2xx"
  /\ sr.out.called
  /\ sr.out.service.fetched
  /\ sr.out.service.route.status = 500
  /\ sr.out.suggestions = <<>>
  /\ ~sr.out.show

\* the step of the resolution that made the text of a request: the primary
\* provider, the backup provider, or the coordinate
ProducedBy(r) ==
  LET t == GetAddressTry(r.lat, r.lng, r.p, r.b, r.net)
  IN  IF t.threw \/ ~t.route.success \/ t.route.address = ""
        THEN "COORDINATE_FALLBACK"
      ELSE IF PrimaryAddress(r.p) # "" THEN "PROVIDER_PRIMARY"
      ELSE IF BackupAddress(r.b) # "" THEN "PROVIDER_BACKUP"
      ELSE "COORDINATE_FALLBACK"

\* every text getAddressFromCoords can return, with the step that made it
ProducedTexts ==
  { [text |-> GetAddressFromCoords(r.lat, r.lng, r.p, r.b, r.net).text,
     source |-> ProducedBy(r)] : r \in ResolveRequests }

\* C20: what getAddressFromCoords returns tells which provider made it:
\* the primary, the backup, or none (the coordinate); no two requests that
\* end by different ones of the three return the same result.
C20_ResultTellsSource ==
  rs.done =>
    \A e \in ProducedTexts : e.text = rs.text => e.source = ProducedBy(rq)

\* the step-by-step request ends with the text getAddressFromCoords gives
\* as a function of the outcomes
StepsAgree ==
  rs.done =>
    rs.text = GetAddressFromCoords(rq.lat, rq.lng, rq.p, rq.b, rq.net).text

\* C21: every resolve request comes to its end: each provider call
\* answering or being aborted by its timeout, the client call returns and
\* the route, when the request reaches it, answers.
C21_ResolveTerminates ==
  <>(rs.done /\ rp.client = "done" /\ rp.route \in {"responded", "unreached"})

C21_Witness ==
  /\ rs.done /\ rs.aborted
  /\ rq.p.kind = "timeout" /\ rq.b.kind = "timeout" /\ rq.net = "ok"
  /\ rp.route = "responded"
  /\ rp.t = 2 * ProviderTimeout
  /\ rp.calls = <<"primary", "backup">>

\* C22: the armed slot is PICKUP or DROPOFF in every state, PICKUP when the
\* booking component mounts and PICKUP after every reset, and every map
\* click is taken for one of the two slots.
C22_ArmedSlot ==
  /\ nextLocationSetting = "pickup"
  /\ [](/\ nextLocationSetting \in Settings
        /\ \A k \in 1..Len(clickLog) : clickLog[k].slot \in Settings)
  /\ [][ResetStep => nextLocationSetting' = "pickup"]_vars

C22_Witness ==
  /\ Len(clickLog) = 1 /\ clickLog[1].slot = "pickup"
  /\ clickLog[1].resets = 0
  /\ lastDone.id = 1 /\ inflight = {}
  /\ resetCount = 1
  /\ nextLocationSetting = "pickup"

\* the step ends the resolution of a click
ClickEndStep == \E r \in inflight : r \notin inflight'

\* the step is one of a position request, of a street search, of the
\* selection of a suggestion or of a submission
OtherStep ==
  \/ gpsCount' # gpsCount
  \/ Len(gpsLog') > Len(gpsLog)
  \/ searches' # searches
  \/ Len(changeLog') > Len(changeLog)
  \/ Len(selectLog') > Len(selectLog)
  \/ isSubmitting' # isSubmitting

\* C23: the armed slot changes only when the resolution of a map click
\* ends and when the selection is reset: a GPS fix, a GPS failure, a street
\* search, the selection of a suggestion and the submission of the form all
\* leave it as it is.
C23_ArmedSlotOwners ==
  [][ /\ nextLocationSetting' # nextLocationSetting
           => (ClickEndStep \/ ResetStep)
      /\ OtherStep => nextLocationSetting' = nextLocationSetting ]_vars

C23_Witness ==
  /\ lastDone.id = 1 /\ inflight = {}
  /\ Len(gpsLog) = 1 /\ gpsLog[1].kind = "fix"
  /\ Len(selectLog) = 1 /\ selectLog[1].field = "dropoff"
  /\ submitStatus = "success" /\ ~isSubmitting
  /\ resetCount = 0
  /\ nextLocationSetting = "dropoff"

\* the items the search provider can answer with
ProviderItems == {MalmoStreet, MalmoPlace, LundStreet, LundCafe}

\* the display_name of the result is one that names Malmo
ResultNamesMalmo(result) ==
  \E it \in ProviderItems :
    /\ JoinParts(it.parts) = result.display_name
    /\ DisplayNameInMalmo(it)

\* C24: no result the search route returns lies outside Malmo: each one
\* names Malmo in its display_name or has its coordinate within the bounds
\* of Malmo, whatever its class and type.
C24_ResultsInMalmo ==
  sr.done =>
    \A i \in 1..Len(sr.out.service.route.results) :
      \/ ResultNamesMalmo(sr.out.service.route.results[i])
      \/ IsInMalmo(sr.out.service.route.results[i].lat,
                   sr.out.service.route.results[i].lon)

\* the times provider is in the list of the calls made
TimesCalled(calls, provider) ==
  Cardinality({i \in 1..Len(calls) : calls[i] = provider})

\* C25: nothing is tried again: one call of getAddressFromCoords has the
\* primary and the backup provider called at most once each, one GET of
\* /api/geocode likewise, and one street search has the search provider
\* called at most once.
C25_NoRetries ==
  /\ (rs.done /\ rq \in ResolveRequests) =>
       /\ TimesCalled(rs.calls, "primary") <= 1
       /\ TimesCalled(rs.calls, "backup") <= 1
  /\ (rs.done /\ rq \in GeocodeRequests) =>
       /\ TimesCalled(rs.resp.calls, "primary") <= 1
       /\ TimesCalled(rs.resp.calls, "backup") <= 1
  /\ (sr.done /\ sq \in StreetRequests) => sr.out.service.route.calls <= 1
  /\ (sr.done /\ sq \in SearchRouteRequests) => sr.resp.calls <= 1

C25_Witness ==
  /\ rs.done /\ rq \in ResolveRequests
  /\ rq.p.kind = "non2xx" /\ rq.b.kind = "unreachable" /\ rq.net = "ok"
  /\ rs.calls = <<"primary", "backup">>

\* C29: a GET of /api/geocode without lat or without lng, and a GET of
\* /api/search-streets without q, is answered with status 400 and no
\* provider is called for it.
C29_MissingParameter ==
  /\ (rs.done /\ rq \in GeocodeRequests
        /\ (rq.lat = <<>> \/ rq.lng = <<>>)) =>
       /\ rs.resp.status = 400
       /\ rs.resp.calls = <<>>
  /\ (sr.done /\ sq \in SearchRouteRequests /\ sq.q = "") =>
       /\ sr.resp.status = 400
       /\ sr.resp.calls = 0

C29_Witness ==
  /\ sr.done /\ sq \in SearchRouteRequests
  /\ sq.q = "" /\ sq.prov.kind = "ok" /\ Len(sq.prov.items) = 1
  /\ sr.resp.status = 400
  /\ sr.resp.results = <<>>

\* the step is the end of a getCurrentLocation call that got no position
GpsFailStep ==
  /\ Len(gpsLog') > Len(gpsLog)
  /\ gpsLog'[Len(gpsLog')].kind = "fail"

\* the failures of a position request that have a kind: permission
\* denied, position unavailable, timeout
GpsErrorKinds == {1, 2, 3}

\* C26: a GPS failure shows a message that is not empty and is the one of
\* its kind, and changes nothing else: the pickup and the dropoff field,
\* the marker list, the current location and the armed slot are after the
\* failure as they were before it, and the request itself changes none of
\* them either.
C26_GpsFailureGuidance ==
  [][ /\ GpsFailStep =>
           /\ locationError' # ""
           /\ \A kind \in GpsErrorKinds, other \in GpsErrorKinds :
                ( /\ gpsLog'[Len(gpsLog')].code = kind
                  /\ other # kind )
                => /\ locationError' = GpsErrorMessage(kind)
                   /\ locationError' # GpsErrorMessage(other)
      /\ (GpsFailStep \/ gpsCount' # gpsCount) =>
           /\ form' = form
           /\ mapMarkers' = mapMarkers
           /\ currentLocation' = currentLocation
           /\ nextLocationSetting' = nextLocationSetting ]_vars

C26_Witness ==
  /\ lastDone.id = 1 /\ inflight = {}
  /\ Len(gpsLog) = 1 /\ gpsLog[1].kind = "fail" /\ gpsLog[1].code = 3
  /\ locationError = GpsErrorMessage(3)
  /\ form.pickupAddress = "Stortorget 1, Malmo"
  /\ OneMarkerAt(mapMarkers, "pickup", 5560500, 1300380)
  /\ ~currentLocation.known
  /\ nextLocationSetting = "dropoff"

\* C27: a click whose resolution failed, the handler being left with the
\* coordinate text, still advances the armed slot: when it completes with
\* no other click and no reset in between, nextLocationSetting is the
\* opposite of what it was when the click was received and the field of
\* the slot armed then holds the coordinate fallback.
C27_FailedClickAdvances ==
  [][ \A r \in inflight :
        ( /\ r \notin inflight'
          /\ inflight = {r}
          /\ r.id = Len(clickLog)
          /\ clickLog[r.id].resets = resetCount
          /\ nextLocationSetting = r.armed
          /\ lastDone'.text = CoordinateFallback(r.lat, r.lng) )
        => /\ nextLocationSetting' = NewNextSetting(r.armed = "pickup")
           /\ form'[FormField(r.armed)] = CoordinateFallback(r.lat, r.lng)
    ]_vars

\* C28: when the primary provider gave no address and the backup provider
\* answered with one within its own timeout, the call to the route being
\* otherwise undisturbed, the text handed to the click handler is the
\* address of the backup provider and not the coordinate fallback.
C28_BackupAddressWritten ==
  ( /\ rs.done
    /\ rq.net = "ok"
    /\ PrimaryAddress(rq.p) = ""
    /\ BackupAddress(rq.b) # ""
    /\ rq.b.dur <= ProviderTimeout )
  => /\ rs.text = BackupAddress(rq.b)
     /\ rs.text # CoordinateFallback(rq.lat, rq.lng)

\* C30: a click on the map runs the handleMapClick of the latest render
\* of the parent: the nextLocationSetting the handler reads for a click is
\* the one armed when the click is received; a click received after a
\* first click has completed and armed 'dropoff' is read as 'dropoff'.
C30_HandlerOfLatestRender ==
  \A k \in 1..Len(clickLog) :
    /\ clickLog[k].slot = clickLog[k].armed
    /\ (k = 2 /\ clickLog[k].armed = "dropoff") => clickLog[k].slot = "dropoff"

\* the clicks in flight that were received before the latest reset
StaleClicks == {r \in inflight : clickLog[r.id].resets < resetCount}

\* C31: no result of a click received before a reset is applied after it:
\* when the resolution of such a click completes, no address field is
\* written, no marker is added and nextLocationSetting is not changed.
C31_ResetDiscardsInflight ==
  [][ \A r \in StaleClicks :
        r \notin inflight' =>
          /\ form' = form
          /\ mapMarkers' = mapMarkers
          /\ nextLocationSetting' = nextLocationSetting ]_vars

\* C32: the geocoding indicator is up exactly while the resolution of at
\* least one click is in flight; with two clicks overlapping it stays up
\* until the later of the two resolutions has completed.
C32_IndicatorWhileInflight ==
  isGeocodingLocation <=> inflight # {}

\* C33: once the map has finished initializing, the markers on it are
\* exactly those of the latest marker list of the parent, whatever the
\* order of the initialization and of the updates of the list, a list set
\* before the initialization completed included.
C33_RenderedMarkersAreLatest ==
  mapReady => renderedMarkers = mapMarkers

\* C34: the dropdown shown under a field lists only results of a query of
\* that field: whenever the dropdown of a field is on display, the list in
\* it is the answer to a search made for that field, whatever the
\* interleaving of the typing in the two fields and of the answers.
C34_DropdownOfItsField ==
  \A f \in Fields :
    (showSuggestions[f] /\ streetSuggestions # <<>>) =>
      \E k \in 1..Len(providerCalls) :
        /\ providerCalls[k].field = f
        /\ streetSuggestions = StreetResults(providerCalls[k].query)

\* C35: at most one debounce timer is pending at any time, the one of the
\* latest change, whichever field it was made in: a change in one field
\* cancels the pending search of the other field, and the search of a
\* change cancelled that way is never sent to the provider.
C35_OneSharedTimer ==
  /\ Cardinality(timers) <= 1
  /\ \A t \in timers : t.id = debounceTimeout /\ t.id = Len(changeLog)
  /\ \A k \in 1..(Len(changeLog) - 1) :
       ( /\ changeLog[k].superseded
         /\ changeLog[k + 1].field # changeLog[k].field )
       => \A i \in 1..Len(providerCalls) :
            ~( /\ providerCalls[i].change = k
               /\ providerCalls[i].field = changeLog[k].field )

C35_Witness ==
  /\ Len(changeLog) = 2
  /\ changeLog[1].value = "Ma" /\ changeLog[1].field = "pickup"
  /\ changeLog[1].superseded
  /\ changeLog[2].value = "Mal" /\ changeLog[2].field = "dropoff"
  /\ timers = {}
  /\ Len(providerCalls) = 1
  /\ providerCalls[1].field = "dropoff"
  /\ providerCalls[1].query = "Mal"

\* the step is the end of a submission whose mails were sent
SubmitSuccessStep ==
  isSubmitting /\ ~isSubmitting' /\ submitStatus' = "success"

\* the frame of a successful submission: the two address fields become
\* empty, nextLocationSetting and the marker list stay as they are
SubmitFrame ==
  SubmitSuccessStep =>
    /\ form'.pickupAddress = "" /\ form'.dropoffAddress = ""
    /\ nextLocationSetting' = nextLocationSetting
    /\ mapMarkers' = mapMarkers

\* C36: a successful submission empties the pickup and the dropoff field
\* and leaves nextLocationSetting and the marker list as they are, so a
\* map click received after a submission made with 'dropoff' armed is
\* taken for the dropoff field.
C36_SubmitKeepsArmedSlot ==
  [][ /\ SubmitFrame
      /\ ( /\ Len(clickLog') > Len(clickLog)
           /\ submitStatus = "success"
           /\ inflight = {}
           /\ nextLocationSetting = "dropoff" )
         => /\ form'.dropoffAddress = Interim
            /\ form'.pickupAddress = form.pickupAddress ]_vars

\* the frame of a successful submission taken alone
SubmitFrameHolds == [][SubmitFrame]_vars

\* the fixes applied that answer a request of an effect of the mount
AutomaticFixes ==
  {k \in 1..Len(gpsLog) :
     gpsLog[k].kind = "fix" /\ gpsLog[k].id \in mountEffects.requests}

\* C37: on mounting the booking component at most one automatic position
\* request is issued, the two effects of the mount never both calling
\* getCurrentLocation, and so at most one automatic fix is applied.
C37_OneAutomaticRequest ==
  /\ Cardinality(mountEffects.requests) <= 1
  /\ Cardinality(AutomaticFixes) <= 1
====
